---- MODULE Spec2Model ----
(***************************************************************************)
(* Model of elasticModulusVisualization.py: the command-line run that      *)
(* builds a stiffness matrix from elastic constants and a symmetry class,  *)
(* inverts and expands it, triangulates the unit sphere from an octahedron *)
(* and scales every direction by the directional Young's modulus.          *)
(*                                                                         *)
(* Numbers.  The program computes in floating point; the model computes    *)
(* exactly.  Elastic constants are drawn from small integers.  A stiffness *)
(* matrix is stored DOUBLED (the model's entry is 2*C[i,j]) so that the    *)
(* program's 0.5*(c11-c12) is an integer.  A compliance is a matrix of     *)
(* numerators over one common denominator.  Where a double is zero or not  *)
(* according to how the rounding goes (a pivot of the factorization, the   *)
(* sum a modulus is the reciprocal of), the model keeps every outcome.     *)
(***************************************************************************)
EXTENDS Integers, Sequences, FiniteSets

\* ------------------------------------------------------------------ bounds
\* largest elastic constant drawn for c11, c12 and the optional constants
MaxC == 1
\* largest subdivision level N drawn for --recursion
MaxN == 2
\* largest coefficient of the test matrices handed to C66toC3333 alone
MaxCoef == 6
\* the largest c12 of the runs that are followed through the inversion
MaxC12 == 3

\* --------------------------------------------------- python values, helpers
\* argparse leaves an option that was not given at None (line 422: no default)
None == <<>>
Some(v) == <<v>>
IsNone(x) == x = <<>>
Val(x) == x[1]

\* python's `c and c > 0.0` (lines 206-238): None and 0.0 are falsy
Provided(x) == (~IsNone(x)) /\ Val(x) # 0 /\ Val(x) > 0

Abs(x) == IF x < 0 THEN -x ELSE x

RECURSIVE Pow2(_)
Pow2(k) == IF k = 0 THEN 1 ELSE 2 * Pow2(k - 1)

RECURSIVE Gcd(_, _)
Gcd(a, b) == IF b = 0 THEN a ELSE Gcd(b, a % b)

\* ------------------------------------------------------ command line (395-424)
Symmetries == {"isotropic", "cubic", "tetragonal", "hexagonal",
               "orthorhombic", "monoclinic", "triclinic"}

\* the 21 options --c{i+1}{j+1}, i <= j (lines 420-422)
CNames == {"c11", "c12", "c13", "c14", "c15", "c16",
           "c22", "c23", "c24", "c25", "c26",
           "c33", "c34", "c35", "c36",
           "c44", "c45", "c46",
           "c55", "c56",
           "c66"}
\* required=i==0 and j<2 (line 422)
Required == {"c11", "c12"}
Optional == CNames \ Required

\* the classes each block of C66fromSymmetry applies to (lines 195-229)
FromIsotropic == Symmetries
FromCubic == Symmetries \ {"isotropic"}
FromTetragonal == FromCubic \ {"cubic"}
FromHexagonal == FromTetragonal \ {"tetragonal"}
FromOrthorhombic == FromHexagonal \ {"hexagonal"}
FromMonoclinic == {"monoclinic", "triclinic"}
FromTriclinic == {"triclinic"}

\* ------------------------------------------------- C66fromSymmetry (165-240)
Idx6 == 0 .. 5
Zeros66 == [p \in Idx6 \X Idx6 |-> 0]

\* C[p] = v for every index pair p of ps (a chained numpy assignment)
SetAll(C, ps, v) == [p \in Idx6 \X Idx6 |-> IF p \in ps THEN v ELSE C[p]]

\* the doubled value of an elastic constant
Dbl(x) == 2 * Val(x)
\* `c if c and c > 0.0 else d`, doubled (d is a doubled matrix entry)
OrElse(x, d) == IF Provided(x) THEN Dbl(x) ELSE d

\* lines 196-200
Isotropic(C, c) ==
  LET A == SetAll(C, {<<0,0>>, <<1,1>>, <<2,2>>}, Dbl(c["c11"]))
      B == SetAll(A, {<<3,3>>, <<4,4>>, <<5,5>>}, Val(c["c11"]) - Val(c["c12"]))
  IN  SetAll(B, {<<0,1>>, <<0,2>>, <<1,2>>, <<1,0>>, <<2,0>>, <<2,1>>}, Dbl(c["c12"]))

\* line 203: `c44 > 0.0` is evaluated on c44 itself; None > 0.0 raises TypeError
CubicRaises(c) == IsNone(c["c44"])

\* line 203, when it does not raise
Cubic(C, c) ==
  SetAll(C, {<<3,3>>, <<4,4>>, <<5,5>>},
         IF Val(c["c44"]) > 0 THEN Dbl(c["c44"]) ELSE C[<<3,3>>])

\* a faulty TetragonalC61: line 212 without the minus sign
TetragonalC61_Symmetric(c) == IF Provided(c["c16"]) THEN Dbl(c["c16"]) ELSE 0

\* lines 206-212
TetragonalC61(c) == IF Provided(c["c16"]) THEN - Dbl(c["c16"]) ELSE 0

Tetragonal(C, c) ==
  LET A == SetAll(C, {<<2,2>>}, OrElse(c["c33"], C[<<0,0>>]))
      B == SetAll(A, {<<5,5>>}, OrElse(c["c66"], A[<<3,3>>]))
      D == SetAll(B, {<<0,2>>, <<1,2>>, <<2,0>>, <<2,1>>}, OrElse(c["c13"], B[<<0,2>>]))
      E == SetAll(D, {<<0,5>>}, OrElse(c["c16"], 0))
  IN  SetAll(E, {<<5,0>>}, TetragonalC61(c))

\* line 215
Hexagonal(C, c) == SetAll(C, {<<5,5>>}, Val(c["c11"]) - Val(c["c12"]))

\* a faulty Orthorhombic: line 221 with C[5,5] as the default of C[5,5]
Orthorhombic_KeepC66(C, c) ==
  LET A == SetAll(C, {<<1,1>>}, OrElse(c["c22"], C[<<0,0>>]))
      B == SetAll(A, {<<2,2>>}, OrElse(c["c33"], A[<<0,0>>]))
      D == SetAll(B, {<<4,4>>}, OrElse(c["c55"], B[<<3,3>>]))
      E == SetAll(D, {<<5,5>>}, OrElse(c["c66"], D[<<5,5>>]))
  IN  SetAll(E, {<<1,2>>, <<2,1>>}, OrElse(c["c23"], E[<<1,2>>]))

\* lines 218-222
Orthorhombic(C, c) ==
  LET A == SetAll(C, {<<1,1>>}, OrElse(c["c22"], C[<<0,0>>]))
      B == SetAll(A, {<<2,2>>}, OrElse(c["c33"], A[<<0,0>>]))
      D == SetAll(B, {<<4,4>>}, OrElse(c["c55"], B[<<3,3>>]))
      E == SetAll(D, {<<5,5>>}, OrElse(c["c66"], D[<<3,3>>]))
  IN  SetAll(E, {<<1,2>>, <<2,1>>}, OrElse(c["c23"], E[<<1,2>>]))

\* lines 225-227
Monoclinic(C, c) ==
  LET A == SetAll(C, {<<1,5>>, <<5,1>>}, OrElse(c["c26"], 0))
      B == SetAll(A, {<<2,5>>, <<5,2>>}, OrElse(c["c36"], 0))
  IN  SetAll(B, {<<3,4>>, <<4,3>>}, OrElse(c["c45"], 0))

\* lines 230-238
Triclinic(C, c) ==
  LET A == SetAll(C, {<<0,3>>, <<3,0>>}, OrElse(c["c14"], 0))
      B == SetAll(A, {<<0,4>>, <<4,0>>}, OrElse(c["c15"], 0))
      D == SetAll(B, {<<1,3>>, <<3,1>>}, OrElse(c["c24"], 0))
      E == SetAll(D, {<<1,4>>, <<4,1>>}, OrElse(c["c25"], 0))
      F == SetAll(E, {<<2,3>>, <<3,2>>}, OrElse(c["c34"], 0))
      G == SetAll(F, {<<2,4>>, <<4,2>>}, OrElse(c["c35"], 0))
      H == SetAll(G, {<<2,5>>, <<5,2>>}, OrElse(c["c36"], 0))
      I == SetAll(H, {<<3,5>>, <<5,3>>}, OrElse(c["c46"], 0))
  IN  SetAll(I, {<<4,5>>, <<5,4>>}, OrElse(c["c56"], 0))

\* whether the call raises (the only expression that can: line 203)
C66fromSymmetryRaises(c, symmetry) == symmetry \in FromCubic /\ CubicRaises(c)

\* the returned matrix, doubled, when the call does not raise
C66fromSymmetry(c, symmetry) ==
  LET C1 == IF symmetry \in FromIsotropic THEN Isotropic(Zeros66, c) ELSE Zeros66
      C2 == IF symmetry \in FromCubic THEN Cubic(C1, c) ELSE C1
      C3 == IF symmetry \in FromTetragonal THEN Tetragonal(C2, c) ELSE C2
      C4 == IF symmetry \in FromHexagonal THEN Hexagonal(C3, c) ELSE C3
      C5 == IF symmetry \in FromOrthorhombic THEN Orthorhombic(C4, c) ELSE C4
      C6 == IF symmetry \in FromMonoclinic THEN Monoclinic(C5, c) ELSE C5
  IN  IF symmetry \in FromTriclinic THEN Triclinic(C6, c) ELSE C6

\* ----------------------------------------------------------- exact algebra
\* the sequence s without its k-th element
Without(s, k) == SubSeq(s, 1, k - 1) \o SubSeq(s, k + 1, Len(s))

\* determinant of the submatrix of M on the rows and columns listed (Laplace
\* expansion along the first listed row, DetRow being the term of the k-th
\* listed column); this is what np.linalg.inv divides by
RECURSIVE DetSub(_, _, _), DetRow(_, _, _, _)
DetSub(M, rows, cols) ==
  IF rows = <<>> THEN 1
  ELSE DetRow(M, rows, cols, 1) + DetRow(M, rows, cols, 2)
         + DetRow(M, rows, cols, 3) + DetRow(M, rows, cols, 4)
         + DetRow(M, rows, cols, 5) + DetRow(M, rows, cols, 6)

DetRow(M, rows, cols, k) ==
  IF k > Len(cols) THEN 0
  ELSE LET e == M[<<rows[1], cols[k]>>]
       IN  IF e = 0 THEN 0
           ELSE (IF k % 2 = 1 THEN e ELSE -e)
                  * DetSub(M, Tail(rows), Without(cols, k))

Seq6 == <<0, 1, 2, 3, 4, 5>>
Det66(M) == DetSub(M, Seq6, Seq6)

\* adj(M)[i,j] = (-1)^(i+j) * minor(M, j, i), so that M . adj(M) = det(M) . I
Adjugate(M) ==
  [p \in Idx6 \X Idx6 |->
     (IF (p[1] + p[2]) % 2 = 0 THEN 1 ELSE -1)
       * DetSub(M, Without(Seq6, p[2] + 1), Without(Seq6, p[1] + 1))]

\* np.einsum('ij,jk,kl', A, B, A)[i,l]: the sum over j and k of
\* A[i,j].B[j,k].A[k,l]; a term with a zero factor of A is zero whatever B
\* holds
Einsum3(A, B, i, l) ==
  LET term(j, k) == IF A[<<i, j>>] = 0 \/ A[<<k, l>>] = 0 THEN 0
                    ELSE A[<<i, j>>] * B[<<j, k>>] * A[<<k, l>>]
      over_k(j) == term(j, 0) + term(j, 1) + term(j, 2)
                     + term(j, 3) + term(j, 4) + term(j, 5)
  IN  over_k(0) + over_k(1) + over_k(2) + over_k(3) + over_k(4) + over_k(5)

\* a float as a fraction num/den in lowest terms with den > 0; a division by
\* zero gives den = 0 and num = 1, -1 (the infinities) or 0 (nan)
Frac(n, d) ==
  IF d = 0 THEN [num |-> IF n > 0 THEN 1 ELSE IF n < 0 THEN -1 ELSE 0, den |-> 0]
  ELSE LET g == Gcd(Abs(n), Abs(d))
           sign == IF d < 0 THEN -1 ELSE 1
       IN  [num |-> sign * (n \div g), den |-> sign * (d \div g)]
\* two finite floats are the same number
FracEq(x, y) == x.den # 0 /\ y.den # 0 /\ x.num = y.num /\ x.den = y.den

\* the greatest common divisor of a finite set of naturals (0 for the empty set)
RECURSIVE GcdSet(_)
GcdSet(E) ==
  IF E = {} THEN 0
  ELSE LET x == CHOOSE y \in E : TRUE IN Gcd(x, GcdSet(E \ {x}))

\* the greatest common divisor of g and the entries of M
GcdEntries(M, g) == GcdSet({g} \cup {Abs(M[p]) : p \in DOMAIN M})

\* a faulty TwoW: W left at the identity (line 127 missing)
TwoW_Identity == [p \in Idx6 \X Idx6 |-> IF p[1] # p[2] THEN 0 ELSE 2]

\* 2*W of lines 126-127: W = diag(1,1,1,0.5,0.5,0.5)
TwoW == [p \in Idx6 \X Idx6 |->
           IF p[1] # p[2] THEN 0 ELSE IF p[1] < 3 THEN 2 ELSE 1]

\* ---------------------------------------------- np.linalg.inv (line 128)
\* arithmetic of finite fractions
FracMul(x, y) == Frac(x.num * y.num, x.den * y.den)
FracSub(x, y) == Frac(x.num * y.den - y.num * x.den, x.den * y.den)
FracDiv(x, y) == Frac(x.num * y.den, x.den * y.num)
FracAbsLess(x, y) == Abs(x.num) * y.den < Abs(y.num) * x.den

\* n >= 1 is a power of two
RECURSIVE IsPow2(_)
IsPow2(n) == n >= 1 /\ (n = 1 \/ (n % 2 = 0 /\ IsPow2(n \div 2)))

\* the double 1/x is the number 1/x: x is plus or minus a power of two.  The
\* factorization scales a column by the reciprocal of its pivot, so that a
\* multiplier is the exact quotient only then
ExactReciprocal(x) == IsPow2(Abs(x.num)) /\ IsPow2(x.den)

\* the working array of the factorization: six rows of six cells, a cell
\* holding the value v of exact arithmetic and the mark x that the double
\* computed in its place went through a rounded operation and may differ
\* from v by rounding errors (a marked cell with v = 0 is zero or a residue)
Cells(D) ==
  LET cell(i, j) == [v |-> Frac(D[<<i - 1, j - 1>>], 1), x |-> FALSE]
      row(i) == <<cell(i, 1), cell(i, 2), cell(i, 3),
                  cell(i, 4), cell(i, 5), cell(i, 6)>>
  IN  <<row(1), row(2), row(3), row(4), row(5), row(6)>>

\* partial pivoting: the first row from k down whose entry in column k is
\* largest in magnitude
PivotRow(a, k) ==
  CHOOSE i \in k .. 6 :
    \A j \in k .. 6 :
      /\ ~FracAbsLess(a[i][k].v, a[j][k].v)
      /\ j < i => FracAbsLess(a[j][k].v, a[i][k].v)

\* rows k and p exchanged
Swap(a, k, p) ==
  LET row(i) == IF i = k THEN a[p] ELSE IF i = p THEN a[k] ELSE a[i]
  IN  <<row(1), row(2), row(3), row(4), row(5), row(6)>>

\* one step of the elimination with the pivot b[k][k] # 0: row i below k
\* loses l times row k, l = b[i][k].(1/b[k][k]); a row with an exact zero in
\* column k is left alone; the result is marked where l is rounded and meets
\* a nonzero entry of row k, and where it meets a marked one
Eliminate(b, k) ==
  LET rounded(i) == b[i][k].x \/ b[k][k].x \/ ~ExactReciprocal(b[k][k].v)
      cell(i, j) ==
        IF i <= k \/ j <= k \/ (b[i][k].v.num = 0 /\ ~b[i][k].x) THEN b[i][j]
        ELSE [v |-> FracSub(b[i][j].v,
                            FracMul(FracDiv(b[i][k].v, b[k][k].v), b[k][j].v)),
              x |-> b[i][j].x \/ b[k][j].x
                      \/ (rounded(i) /\ b[k][j].v.num # 0)]
      row(i) == <<cell(i, 1), cell(i, 2), cell(i, 3),
                  cell(i, 4), cell(i, 5), cell(i, 6)>>
  IN  <<row(1), row(2), row(3), row(4), row(5), row(6)>>

\* the step when every entry of column k from row k down is zero in exact
\* arithmetic but b[k][k] is marked and taken to be a residue: the marked
\* rows below lose an unknown multiple of row k
EliminateResidue(b, k) ==
  LET cell(i, j) ==
        IF i <= k \/ j <= k \/ ~b[i][k].x THEN b[i][j]
        ELSE [v |-> b[i][j].v,
              x |-> b[i][j].x \/ b[k][j].x \/ b[k][j].v.num # 0]
      row(i) == <<cell(i, 1), cell(i, 2), cell(i, 3),
                  cell(i, 4), cell(i, 5), cell(i, 6)>>
  IN  <<row(1), row(2), row(3), row(4), row(5), row(6)>>

\* LU factorization with partial pivoting (LAPACK getrf under np.linalg.inv)
\* from column k on.  The outcome is
\*   "singular": a column whose entries from the diagonal down are all exact
\*               zeros: the zero pivot is found whatever the rounding;
\*   "regular":  every pivot is nonzero in exact arithmetic;
\*   "rounding": a pivot that is zero in exact arithmetic is a marked cell:
\*               the double is zero or a residue, as the rounding goes;
\* exact tells that no operation of the factorization was rounded.
RECURSIVE Factor(_, _, _)
Factor(a, k, st) ==
  IF k > 6
    THEN [outcome |-> IF st.residue THEN "rounding" ELSE "regular",
          exact |-> st.exact]
    ELSE LET p == PivotRow(a, k)
             b == Swap(a, k, p)
             marked == {i \in k .. 6 : a[i][k].x}
             q == CHOOSE i \in marked : \A j \in marked : i <= j
         IN  IF a[p][k].v.num # 0
               THEN Factor(Eliminate(b, k), k + 1,
                           [residue |-> st.residue,
                            exact |-> st.exact /\ ~b[k][k].x
                                        /\ ExactReciprocal(b[k][k].v)])
               ELSE IF marked = {}
                      THEN [outcome |-> "singular", exact |-> FALSE]
                      ELSE Factor(EliminateResidue(Swap(a, k, q), k), k + 1,
                                  [residue |-> TRUE, exact |-> FALSE])

\* the factorization of M66 = D/2 (halving every entry is exact, and the
\* pivots of D are powers of two exactly when those of D/2 are)
Factorization(D) == Factor(Cells(D), 1, [residue |-> FALSE, exact |-> TRUE])

\* np.linalg.inv raises LinAlgError("Singular matrix") (line 128) when the
\* factorization meets a pivot that is exactly 0.0: the set of the outcomes
\* (TRUE: it raises) the rounding can give
Inverse66Raises(D) ==
  LET o == Factorization(D).outcome
  IN  IF o = "singular" THEN {TRUE}
      ELSE IF o = "regular" THEN {FALSE}
      ELSE {TRUE, FALSE}

\* W . inv(M66) . W for M66 = D/2 (D is the doubled matrix):
\*   inv(D/2) = 2.adj(D)/det(D), W = TwoW/2, so the result is
\*   TwoW.adj(D).TwoW / (2.det(D)): numerators over one denominator, reduced
\*   by their common divisor g, the denominator made positive; exact tells
\*   that the doubles are these numbers and not roundings of them.
\* When det(D) = 0 and no zero pivot was met, the pivot was a residue and
\* the entries are what the rounding left: den = 0 stands for that.
Inverse66(D) ==
  LET d == 2 * Det66(D)
      n == [p \in Idx6 \X Idx6 |-> Einsum3(TwoW, Adjugate(D), p[1], p[2])]
      g == GcdEntries(n, Abs(d))
      sign == IF d < 0 THEN -1 ELSE 1
  IN  IF d = 0 THEN [num |-> Zeros66, den |-> 0, exact |-> FALSE]
      ELSE [num |-> [p \in Idx6 \X Idx6 |-> sign * (n[p] \div g)],
            den |-> sign * (d \div g),
            exact |-> Factorization(D).exact]

\* ------------------------------------------------------ C66toC3333 (131-157)
Idx3 == 0 .. 2
\* line 146
VoigtIndex == << <<0,0>>, <<1,1>>, <<2,2>>, <<1,2>>, <<0,2>>, <<0,1>> >>
Zeros3333 == [q \in Idx3 \X Idx3 \X Idx3 \X Idx3 |-> 0]

\* a faulty Assigned: lines 153-154 missing
Assigned_TwoOnly(a, b) ==
  LET i == VoigtIndex[a + 1][1]
      j == VoigtIndex[a + 1][2]
      k == VoigtIndex[b + 1][1]
      l == VoigtIndex[b + 1][2]
  IN  {<<i, j, k, l>>, <<j, i, l, k>>}

\* lines 152-155: the four entries one (a, b) assigns
Assigned(a, b) ==
  LET i == VoigtIndex[a + 1][1]
      j == VoigtIndex[a + 1][2]
      k == VoigtIndex[b + 1][1]
      l == VoigtIndex[b + 1][2]
  IN  {<<i, j, k, l>>, <<i, j, l, k>>, <<j, i, k, l>>, <<j, i, l, k>>}

\* the steps t = 6a + b of the loops of lines 148-155 that assign entry q
Writers(q) == {t \in 0 .. 35 : q \in Assigned(t \div 6, t % 6)}

\* lines 145-155: an entry holds what the last step assigning it wrote, and
\* the zero of line 145 where no step assigns it
C66toC3333(stiffness) ==
  [q \in DOMAIN Zeros3333 |->
     IF Writers(q) = {} THEN Zeros3333[q]
     ELSE LET last == CHOOSE t \in Writers(q) : \A u \in Writers(q) : u <= t
          IN  stiffness[<<last \div 6, last % 6>>]]

\* ------------------------------------------------------- Sierpinsky (70-104)
\* line 89
EdgePoints(N) == 1 + Pow2(N)

\* np.cumsum(np.arange(n))[k]
RECURSIVE Cumsum(_)
Cumsum(k) == IF k = 0 THEN 0 ELSE k + Cumsum(k - 1)

\* line 95: c[k,l] = l + cumsum(r)[k], for every (k,l) of the n x n grid
NodeGrid(n) == [p \in (0 .. n - 1) \X (0 .. n - 1) |-> p[2] + Cumsum(p[1])]

\* np.roll(g, -1, axis=0) and np.roll(g, -1, axis=1) of an n x n grid
Roll0(g, n) == [p \in DOMAIN g |-> g[<<(p[1] + 1) % n, p[2]>>]]
Roll1(g, n) == [p \in DOMAIN g |-> g[<<p[1], (p[2] + 1) % n>>]]

\* line 98: the first ("upward") triangle of grid cell (k,l)
UpCell(g, n, k, l) ==
  <<g[<<k, l>>], Roll0(g, n)[<<k, l>>], Roll1(Roll0(g, n), n)[<<k, l>>]>>

\* line 99: the second ("downward") triangle of grid cell (k,l)
DownCell(g, n, k, l) ==
  <<g[<<k, l>>], Roll1(Roll0(g, n), n)[<<k, l>>], Roll1(g, n)[<<k, l>>]>>

\* line 100: after transpose(2,3,0,1).reshape((n,2*n,3)) column m of row k
\* holds triangle m % 2 of cell (k, m \div 2)
Band(g, n, k, m) ==
  IF m % 2 = 0 THEN UpCell(g, n, k, m \div 2) ELSE DownCell(g, n, k, m \div 2)

\* a faulty KeptColumns: the mask rows taken from [1:-1:2] instead of [:-2:2]
KeptColumns_OddRows(n, k) == {m \in 0 .. 2 * n - 1 : m <= 2 * k + 1}

\* line 102: row k of np.tril(ones((2n,2n)))[:-2:2] is row 2k of the lower
\* triangle: columns 0 .. 2k are kept
KeptColumns(n, k) == {m \in 0 .. 2 * n - 1 : m <= 2 * k}

\* lines 100-103: the kept columns of row k in order, then those of the rows
\* after it up to row n-2 ([:-1] drops row n-1), as reshape((-1,3)) lists them
RECURSIVE TriangleRows(_, _, _)
TriangleRows(g, n, k) ==
  IF k > n - 2 THEN <<>>
  ELSE [x \in 1 .. Cardinality(KeptColumns(n, k)) |-> Band(g, n, k, x - 1)]
         \o TriangleRows(g, n, k + 1)

\* lines 98-103
SierpinskyTriangles(N) ==
  TriangleRows(NodeGrid(EdgePoints(N)), EdgePoints(N), 0)

\* a faulty WeightNum: n-i for n-1-i
WeightNum_OffByOne(n, i, j) == <<n - i, i - j, j>>

\* line 97: the numerators (n-1-i, i-j, j) of one lattice point
WeightNum(n, i, j) == <<n - 1 - i, i - j, j>>

\* lines 91-94: k[tril_n], l[tril_n] list the (i,j) with j <= i row by row
RECURSIVE WeightRows(_, _)
WeightRows(n, i) ==
  IF i > n - 1 THEN <<>>
  ELSE [x \in 1 .. i + 1 |-> WeightNum(n, i, x - 1)] \o WeightRows(n, i + 1)

\* lines 89-97: the weights are the numerators over the denominator n-1
SierpinskyWeights(N) ==
  [num |-> WeightRows(EdgePoints(N), 0), den |-> EdgePoints(N) - 1]

\* -------------------------------------------------- node, octahedron (18-36)
node == << << 1, 0, 0>>, <<-1, 0, 0>>, << 0, 1, 0>>,
           << 0,-1, 0>>, << 0, 0, 1>>, << 0, 0,-1>> >>

\* a faulty octahedron: the last face mistyped as [3, 5, 1]
octahedron_Mistyped == << <<0, 2, 4>>, <<2, 1, 4>>, <<1, 3, 4>>, <<3, 0, 4>>,
                          <<0, 5, 2>>, <<2, 5, 1>>, <<1, 5, 3>>, <<3, 5, 1>> >>

octahedron == << <<0, 2, 4>>, <<2, 1, 4>>, <<1, 3, 4>>, <<3, 0, 4>>,
                 <<0, 5, 2>>, <<2, 5, 1>>, <<1, 5, 3>>, <<3, 5, 0>> >>

\* line 450
N_faces == Len(octahedron)

\* --------------------------------------------------------- assembly (450-456)
\* a faulty FaceOffset: faces counted from 1
FaceOffset_FromOne(w, f) == Len(w.num) * (f + 1)

\* line 453: the offset added to the triangles of face f (f = 0..7)
FaceOffset(w, f) == Len(w.num) * f

\* lines 453-454: face-major, every index of a face's triangle shifted
Connectivity(w, tris) ==
  [x \in 1 .. N_faces * Len(tris) |->
     LET f == (x - 1) \div Len(tris)
         t == tris[((x - 1) % Len(tris)) + 1]
     IN  <<FaceOffset(w, f) + t[1], FaceOffset(w, f) + t[2], FaceOffset(w, f) + t[3]>>]

\* np.einsum('ik,...kj', weights, node[octahedron])[f,i,:], times weights.den
FacePoint(w, f, i) ==
  [j \in 1 .. 3 |->
       w.num[i][1] * node[octahedron[f + 1][1] + 1][j]
     + w.num[i][2] * node[octahedron[f + 1][2] + 1][j]
     + w.num[i][3] * node[octahedron[f + 1][3] + 1][j]]

\* lines 38-39, v/|v|.  A unit vector is kept as the shortest integer vector p
\* of its direction (the vector is p/|p|) with a radial factor r, so that two
\* unit vectors are equal exactly when their p are; a zero v gives nan
normalize(v) ==
  LET g == Gcd(Gcd(Abs(v[1]), Abs(v[2])), Abs(v[3]))
  IN  IF g = 0 THEN [p |-> v, r |-> Frac(0, 0)]
      ELSE [p |-> [j \in 1 .. 3 |-> v[j] \div g], r |-> Frac(1, 1)]

\* line 455: face-major after reshape((-1,3))
Nodes(w) ==
  [x \in 1 .. N_faces * Len(w.num) |->
     normalize(FacePoint(w, (x - 1) \div Len(w.num), ((x - 1) % Len(w.num)) + 1))]

\* -------------------------------------------------------- E_hkl3333 (160-162)
\* np.einsum('...i,...j,...k,...l,ijkl', p, p, p, p, T) for one vector p: the
\* sum over i,j,k,l of p_i p_j p_k p_l T[i,j,k,l], index by index (ix holds
\* the indices chosen so far); a term with a zero component of p is zero
RECURSIVE Contract(_, _, _), ContractLeg(_, _, _, _)
Contract(T, p, ix) ==
  IF Len(ix) = 4 THEN T[ix]
  ELSE ContractLeg(T, p, ix, 0) + ContractLeg(T, p, ix, 1) + ContractLeg(T, p, ix, 2)

ContractLeg(T, p, ix, a) ==
  IF p[a + 1] = 0 THEN 0 ELSE p[a + 1] * Contract(T, p, Append(ix, a))

\* the float that rounding decides: the reciprocal of a sum that is zero in
\* exact arithmetic but is added up from rounded terms.  The double is +inf
\* where the terms cancel to 0.0, and a finite number of either sign and of
\* the size of the reciprocal of a rounding error where they leave a residue
Rounded == [num |-> 0, den |-> 0, rounded |-> TRUE]
IsRounded(x) == "rounded" \in DOMAIN x

\* some term p_i p_j p_k p_l T[i,j,k,l] of the einsum is not zero
Cancels(T, p) ==
  \E ix \in Idx3 \X Idx3 \X Idx3 \X Idx3 :
    T[ix] # 0 /\ \A m \in 1 .. 4 : p[ix[m] + 1] # 0

\* 1./einsum(dir,dir,dir,dir,S3333) for the unit vector dir = d.p/|d.p|:
\* the einsum is Contract(S.num, p)/(S.den.|p|^4).  A zero einsum gives a
\* non-finite float (numpy divides by zero without raising) when it is 0.0
\* itself: every term is zero and S holds the exact numbers.  A sum of
\* nonzero terms that cancel, or one over entries of S that are roundings
\* or residues, is zero only up to rounding
E_hkl3333(S, d) ==
  LET q == d.p[1] * d.p[1] + d.p[2] * d.p[2] + d.p[3] * d.p[3]
      s == Contract(S.num, d.p, <<>>)
  IN  IF S.den = 0 THEN Rounded
      ELSE IF s = 0 /\ (~S.exact \/ Cancels(S.num, d.p)) THEN Rounded
      ELSE Frac(S.den * q * q, s)

\* line 456: nodes *= E[..., newaxis]; every node comes in with r = 1
Scaled(S, ns) == [x \in DOMAIN ns |-> [p |-> ns[x].p, r |-> E_hkl3333(S, ns[x])]]

\* np.linalg.norm of a scaled node (lines 267, 303): |r| for a finite r; a
\* non-finite r times a zero component is nan, and the norm is then nan; the
\* norm of a node scaled by a float that rounding decides is decided with it
NodeNorm(nd) ==
  IF IsRounded(nd.r) THEN [kind |-> "rounded", num |-> 0, den |-> 0]
  ELSE IF nd.r.den # 0
    THEN [kind |-> "finite", num |-> Abs(nd.r.num), den |-> nd.r.den]
  ELSE IF \E j \in 1 .. 3 : nd.p[j] = 0 THEN [kind |-> "nan", num |-> 0, den |-> 0]
  ELSE [kind |-> "inf", num |-> 0, den |-> 0]

\* ------------------------------------------------------------------- state
VARIABLES
  pc,            \* the statement of the script that runs next
  args,          \* parser.parse_args() (line 424): symmetry, recursion, c11..c66
  err,           \* the exception that ended the run, or "none"
  C,             \* the value of C66fromSymmetry(...), doubled (line 426)
  S66,           \* the value of inverse66(...) (line 426)
  S3333,         \* line 426
  weights, c,    \* line 451
  connectivity,  \* line 453
  nodes,         \* lines 455-456
  out            \* what the exporter was called with (lines 458-460)

vars == <<pc, args, err, C, S66, S3333, weights, c, connectivity, nodes, out>>

\* a name the script has not assigned yet
Unset == <<>>

Formats == {"vtk", "x3d"}

\* the values drawn for an elastic constant that is given
CVals == -1 .. MaxC

\* parse_args() with --symmetry sym -N n --c11 a --c12 b and no other constant
BaseArgs(sym, n, a, b) ==
  [x \in CNames \cup {"symmetry", "recursion"} |->
     CASE x = "symmetry" -> sym
       [] x = "recursion" -> n
       [] x = "c11" -> Some(a)
       [] x = "c12" -> Some(b)
       [] OTHER -> None]

\* an optional constant: not given, or given with a value
OptVals == {None} \cup {Some(v) : v \in CVals}

Fresh ==
  /\ err = "none"
  /\ C = Unset /\ S66 = Unset /\ S3333 = Unset
  /\ weights = Unset /\ c = Unset /\ connectivity = Unset /\ nodes = Unset
  /\ out = Unset

\* ----------------------------------------------------- the script (426-460)
\* line 426, innermost call
BuildStiffness ==
  /\ pc = "start"
  /\ IF C66fromSymmetryRaises(args, args.symmetry)
       THEN pc' = "aborted" /\ err' = "TypeError" /\ C' = C
       ELSE pc' = "built" /\ err' = err /\ C' = C66fromSymmetry(args, args.symmetry)
  /\ UNCHANGED <<args, S66, S3333, weights, c, connectivity, nodes, out>>

\* line 426, inverse66
Invert ==
  /\ pc = "built"
  /\ \E raised \in Inverse66Raises(C) :
       IF raised
         THEN pc' = "aborted" /\ err' = "LinAlgError" /\ S66' = S66
         ELSE pc' = "inverted" /\ err' = err /\ S66' = Inverse66(C)
  /\ UNCHANGED <<args, C, S3333, weights, c, connectivity, nodes, out>>

\* line 426, C66toC3333: the entries are copied, the denominator and the
\* exactness are theirs
Expand ==
  /\ pc = "inverted"
  /\ S3333' = [num |-> C66toC3333(S66.num), den |-> S66.den,
               exact |-> S66.exact]
  /\ pc' = "expanded"
  /\ UNCHANGED <<args, err, C, S66, weights, c, connectivity, nodes, out>>

\* line 451
Triangulate ==
  /\ pc = "expanded"
  /\ weights' = SierpinskyWeights(args.recursion)
  /\ c' = SierpinskyTriangles(args.recursion)
  /\ pc' = "triangulated"
  /\ UNCHANGED <<args, err, C, S66, S3333, connectivity, nodes, out>>

\* lines 453-454
Connect ==
  /\ pc = "triangulated"
  /\ connectivity' = Connectivity(weights, c)
  /\ pc' = "connected"
  /\ UNCHANGED <<args, err, C, S66, S3333, weights, c, nodes, out>>

\* line 455
Place ==
  /\ pc = "connected"
  /\ nodes' = Nodes(weights)
  /\ pc' = "placed"
  /\ UNCHANGED <<args, err, C, S66, S3333, weights, c, connectivity, out>>

\* line 456
Scale ==
  /\ pc = "placed"
  /\ nodes' = Scaled(S3333, nodes)
  /\ pc' = "scaled"
  /\ UNCHANGED <<args, err, C, S66, S3333, weights, c, connectivity, out>>

\* lines 458-460: the writer chosen by args.format is called
Export(format) ==
  /\ pc = "scaled"
  /\ out' = [writer |-> format, coords |-> nodes, connectivity |-> connectivity]
  /\ pc' = "done"
  /\ UNCHANGED <<args, err, C, S66, S3333, weights, c, connectivity, nodes>>

\* ------------------------------------------------------------ specifications
\* one run of the script: every symmetry class, N, c11 and c12, with c44 given
\* or not
Init ==
  /\ pc = "start"
  /\ \E sym \in Symmetries, n \in 0 .. MaxN, a \in CVals, b \in CVals :
       \E c44 \in {None} \cup {Some(v) : v \in 1 .. MaxC} :
         args = [BaseArgs(sym, n, a, b) EXCEPT !["c44"] = c44]
  /\ Fresh

Next ==
  \/ BuildStiffness
  \/ Invert
  \/ Expand
  \/ Triangulate
  \/ Connect
  \/ Place
  \/ Scale
  \/ \E format \in Formats : Export(format)

Spec == Init /\ [][Next]_vars

\* the runs with N = 0 and a wider range of constants: c12 up to MaxC12, and
\* c13, c33 and c44 given or not
InitInvert ==
  /\ pc = "start"
  /\ \E sym \in Symmetries, a \in CVals, b \in -1 .. MaxC12 :
       \E c13 \in {None} \cup {Some(v) : v \in 1 .. MaxC},
          c33 \in {None} \cup {Some(v) : v \in 1 .. MaxC},
          c44 \in {None} \cup {Some(v) : v \in 1 .. MaxC} :
         args = [BaseArgs(sym, 0, a, b)
                   EXCEPT !["c13"] = c13, !["c33"] = c33, !["c44"] = c44]
  /\ Fresh

SpecInvert == InitInvert /\ [][Next]_vars

\* C66fromSymmetry alone: every class, c11 and c12, c44 and any two of the
\* other eighteen optional constants, each not given, negative, zero or positive
InitBuild ==
  /\ pc = "start"
  /\ \E sym \in Symmetries, a \in 0 .. MaxC, b \in 0 .. MaxC, c44 \in OptVals :
       \E n1 \in Optional \ {"c44"}, n2 \in Optional \ {"c44"},
          v1 \in OptVals, v2 \in OptVals :
         args = [BaseArgs(sym, 0, a, b) EXCEPT !["c44"] = c44, ![n1] = v1, ![n2] = v2]
  /\ Fresh

NextBuild == BuildStiffness

SpecBuild == InitBuild /\ [][NextBuild]_vars

\* C66toC3333 alone, on matrices M[a,b] = x.a + y.b + z: with x = 6, y = 1 all
\* 36 entries differ, and x # y makes M asymmetric
TestMatrix(x, y, z) == [p \in Idx6 \X Idx6 |-> x * p[1] + y * p[2] + z]

InitVoigt ==
  /\ pc = "inverted"
  /\ args = Unset
  /\ err = "none"
  /\ C = Unset
  /\ \E x \in 0 .. MaxCoef, y \in 0 .. MaxCoef, z \in {0, 1} :
       S66 = [num |-> TestMatrix(x, y, z), den |-> 1, exact |-> TRUE]
  /\ S3333 = Unset
  /\ weights = Unset /\ c = Unset /\ connectivity = Unset /\ nodes = Unset
  /\ out = Unset

NextVoigt == Expand

SpecVoigt == InitVoigt /\ [][NextVoigt]_vars

\* ===================================================================== claims
\* --- definitions the claims are stated with (the lattice as the spec has it)
LatticeIndex(i, j) == (i * (i + 1)) \div 2 + j
UpwardCell(k, l) ==
  {LatticeIndex(k, l), LatticeIndex(k + 1, l), LatticeIndex(k + 1, l + 1)}
DownwardCell(k, l) ==
  {LatticeIndex(k, l), LatticeIndex(k + 1, l + 1), LatticeIndex(k, l + 1)}
UnitCells(n) ==
  UNION {{UpwardCell(k, l) : l \in 0 .. k} \cup {DownwardCell(k, l) : l \in 0 .. k - 1}
           : k \in 0 .. n - 2}
TriVertices(t) == {t[1], t[2], t[3]}
LatticeTriples(m) ==
  {t \in (0 .. m) \X (0 .. m) \X (0 .. m) : t[1] + t[2] + t[3] = m}
PointsPerFace(N) == ((Pow2(N) + 1) * (Pow2(N) + 2)) \div 2

\* C1: the triangles Sierpinsky(N) returns are exactly the upward and downward
\* unit cells of the lattice with n = 2^N + 1 points per edge, each once: there
\* are (n-1)^2 = (2^N)^2 of them, none repeated, none degenerate, and lattice
\* point (i,j) is referenced by its position i(i+1)/2 + j in the weights.
C1_TrianglesAreTheUnitCells ==
  pc = "triangulated" =>
    LET N == args.recursion
        n == Pow2(N) + 1
    IN  /\ {TriVertices(c[x]) : x \in DOMAIN c} = UnitCells(n)
        /\ Len(c) = (n - 1) * (n - 1)
        /\ Len(c) = Pow2(N) * Pow2(N)
        /\ Cardinality(UnitCells(n)) = Len(c)
        /\ \A x \in DOMAIN c : Cardinality(TriVertices(c[x])) = 3
        /\ \A i \in 0 .. n - 1 : \A j \in 0 .. i :
             weights.num[LatticeIndex(i, j) + 1] = <<n - 1 - i, i - j, j>>

\* C1 witness: Sierpinsky(2) has returned and its last row holds a downward cell
C1_Witness ==
  /\ pc = "triangulated"
  /\ args.recursion = 2
  /\ \E x \in DOMAIN c : TriVertices(c[x]) = DownwardCell(3, 2)

\* C2: the weights Sierpinsky(N) returns are all triples of non-negative
\* integers with sum n-1, each once, over the denominator n-1: there are
\* (2^N+1)(2^N+2)/2 of them, no component is negative, each triple sums to 1.
C2_WeightsAreTheLattice ==
  pc = "triangulated" =>
    LET N == args.recursion
        n == Pow2(N) + 1
    IN  /\ weights.den = n - 1
        /\ weights.den > 0
        /\ {weights.num[x] : x \in DOMAIN weights.num} = LatticeTriples(n - 1)
        /\ Len(weights.num) = PointsPerFace(N)
        /\ Cardinality(LatticeTriples(n - 1)) = Len(weights.num)
        /\ \A x \in DOMAIN weights.num :
             /\ \A k \in 1 .. 3 : weights.num[x][k] >= 0
             /\ weights.num[x][1] + weights.num[x][2] + weights.num[x][3] = weights.den

\* C2 witness: Sierpinsky(2) has returned the interior point (1,2,1)/4
C2_Witness ==
  /\ pc = "triangulated"
  /\ args.recursion = 2
  /\ weights.den = 4
  /\ \E x \in DOMAIN weights.num : weights.num[x] = <<1, 2, 1>>

\* the node index x (from 0) lies in the part of the points face f emitted
InFace(x, f, P) == f * P <= x /\ x < (f + 1) * P
\* the direction p lies in the octant spanned by the vertices of face f
InOctant(p, f) ==
  \A k \in 1 .. 3 :
    LET v == node[octahedron[f + 1][k] + 1]
    IN  p[1] * v[1] + p[2] * v[2] + p[3] * v[3] >= 0

\* C3: the mesh has 8P points and 8(2^N)^2 triangles, P = (2^N+1)(2^N+2)/2;
\* every triangle index is a position of the point sequence, and the triangles
\* of face f reference only the indices [fP, (f+1)P), which are the points
\* that face emitted (they lie in its octant).
C3_IndicesAreValidPerFace ==
  pc = "placed" =>
    LET N == args.recursion
        P == PointsPerFace(N)
        T == Pow2(N) * Pow2(N)
    IN  /\ Len(nodes) = 8 * P
        /\ Len(connectivity) = 8 * T
        /\ \A x \in DOMAIN connectivity : \A k \in 1 .. 3 :
             LET f == (x - 1) \div T
                 i == connectivity[x][k]
             IN  /\ 0 <= i /\ i < 8 * P
                 /\ InFace(i, f, P)
                 /\ InOctant(nodes[i + 1].p, f)

\* C3 witness: at N = 2 the last triangle (face 7) ends at the last point
C3_Witness ==
  /\ pc = "placed"
  /\ args.recursion = 2
  /\ Len(connectivity) = 128
  /\ connectivity[128][3] = 119
  /\ nodes[120].p = <<1, 0, 0>>

\* the number of node indices whose direction is that of node x
SameDirection(x) == Cardinality({y \in DOMAIN nodes : nodes[y].p = nodes[x].p})
\* the number of zero weights of node x: 0 inside its face, 1 on an edge of
\* the octahedron, 2 at a vertex
ZeroWeights(x) ==
  LET w == weights.num[((x - 1) % Len(weights.num)) + 1]
  IN  Cardinality({k \in 1 .. 3 : w[k] = 0})

\* C4 as stated: no two distinct node indices denote the same direction.
C4_NoCoincidentNodes ==
  pc = "placed" =>
    \A x \in DOMAIN nodes : \A y \in DOMAIN nodes :
      nodes[x].p = nodes[y].p => x = y

\* C4 amended: the points of one face have distinct directions, and a
\* direction is emitted once per face it lies on: a point inside a face has
\* one node index, a point on an octahedron edge two, an octahedron vertex four.
C4_OneNodePerAdjacentFace ==
  pc = "placed" =>
    LET P == Len(weights.num)
    IN  /\ \A f \in 0 .. 7 :
             Cardinality({nodes[f * P + i].p : i \in 1 .. P}) = P
        /\ \A x \in DOMAIN nodes :
             SameDirection(x) = CASE ZeroWeights(x) = 0 -> 1
                                  [] ZeroWeights(x) = 1 -> 2
                                  [] OTHER -> 4

\* C4 witness: at N = 2 an interior point, an edge point and a vertex exist
C4_Witness ==
  /\ pc = "placed"
  /\ args.recursion = 2
  /\ \E x \in DOMAIN nodes : ZeroWeights(x) = 0 /\ SameDirection(x) = 1
  /\ \E x \in DOMAIN nodes : ZeroWeights(x) = 1 /\ SameDirection(x) = 2
  /\ \E x \in DOMAIN nodes : ZeroWeights(x) = 2 /\ SameDirection(x) = 4

\* C5 as stated: C66fromSymmetry never fails, whatever optional constants are
\* left at None; for cubic and higher without c44 the build completes and
\* C44 = C55 keep the isotropic 0.5*(c11 - c12).
C5_BuildNeverFails ==
  pc # "start" =>
    /\ err = "none"
    /\ pc = "built"
    /\ (args.symmetry = "cubic" /\ IsNone(args["c44"]) =>
          /\ C[<<3, 3>>] = Val(args["c11"]) - Val(args["c12"])
          /\ C[<<4, 4>>] = Val(args["c11"]) - Val(args["c12"]))

\* the (doubled) value the claims expect of `c if provided and > 0 else d`
Honored(x, d) == IF (~IsNone(x)) /\ Val(x) > 0 THEN 2 * Val(x) ELSE d

\* C6: the returned matrix is symmetric except at (1,6)/(6,1); for tetragonal
\* and higher M[6,1] = -M[1,6] with M[1,6] = c16 if provided and > 0, else 0;
\* for isotropic and cubic both are 0.
C6_SymmetricExceptC16 ==
  pc = "built" =>
    /\ \A i \in Idx6 : \A j \in Idx6 :
         {i, j} # {0, 5} => C[<<i, j>>] = C[<<j, i>>]
    /\ args.symmetry \in {"tetragonal", "hexagonal", "orthorhombic",
                          "monoclinic", "triclinic"} =>
         /\ C[<<5, 0>>] = - C[<<0, 5>>]
         /\ C[<<0, 5>>] = Honored(args["c16"], 0)
    /\ args.symmetry \in {"isotropic", "cubic"} =>
         C[<<0, 5>>] = 0 /\ C[<<5, 0>>] = 0

\* C6 witness: a monoclinic matrix with c16 and c26 given, so that the
\* antisymmetric pair and a symmetric off-diagonal pair are both set
C6_Witness ==
  /\ pc = "built"
  /\ args.symmetry = "monoclinic"
  /\ args["c16"] = Some(1) /\ args["c26"] = Some(1)
  /\ C[<<0, 5>>] = 2 /\ C[<<5, 0>>] = -2
  /\ C[<<1, 5>>] = 2 /\ C[<<5, 1>>] = 2

\* the value the rules of isotropic through hexagonal give C44 (doubled)
ShearOfLowerClasses ==
  Honored(args["c44"], Val(args["c11"]) - Val(args["c12"]))

\* C7 as stated: for orthorhombic and higher each of C22, C33, C55, C66, C23
\* is its constant if provided and > 0 and otherwise the value the rules of
\* isotropic through hexagonal give that same entry; without c66, C66 is the
\* hexagonal 0.5*(C11 - C12).
C7_KeepsOwnEntry ==
  pc = "built" /\ args.symmetry \in {"orthorhombic", "monoclinic", "triclinic"} =>
    /\ C[<<1, 1>>] = Honored(args["c22"], 2 * Val(args["c11"]))
    /\ C[<<2, 2>>] = Honored(args["c33"], 2 * Val(args["c11"]))
    /\ C[<<4, 4>>] = Honored(args["c55"], ShearOfLowerClasses)
    /\ C[<<5, 5>>] = Honored(args["c66"], Val(args["c11"]) - Val(args["c12"]))
    /\ C[<<1, 2>>] = Honored(args["c23"], Honored(args["c13"], 2 * Val(args["c12"])))

\* C7 amended: as stated for C22, C33, C55 and C23; C66 is c66 if provided
\* and > 0 and otherwise the value of C44 (c44 if > 0, else 0.5*(c11 - c12)),
\* not the hexagonal value of C66.
C7_C66DefaultsToC44 ==
  pc = "built" /\ args.symmetry \in {"orthorhombic", "monoclinic", "triclinic"} =>
    /\ C[<<1, 1>>] = Honored(args["c22"], 2 * Val(args["c11"]))
    /\ C[<<2, 2>>] = Honored(args["c33"], 2 * Val(args["c11"]))
    /\ C[<<4, 4>>] = Honored(args["c55"], ShearOfLowerClasses)
    /\ C[<<5, 5>>] = Honored(args["c66"], ShearOfLowerClasses)
    /\ C[<<5, 5>>] = Honored(args["c66"], C[<<3, 3>>])
    /\ C[<<1, 2>>] = Honored(args["c23"], Honored(args["c13"], 2 * Val(args["c12"])))

\* C7 witness: orthorhombic, c44 given and c66 not: C66 is c44, which is not
\* the hexagonal 0.5*(c11 - c12)
C7_Witness ==
  /\ pc = "built"
  /\ args.symmetry = "orthorhombic"
  /\ args["c44"] = Some(1) /\ IsNone(args["c66"])
  /\ C[<<5, 5>>] = 2
  /\ C[<<5, 5>>] # Val(args["c11"]) - Val(args["c12"])

\* the Voigt map: (0,0)->0, (1,1)->1, (2,2)->2, (1,2)->3, (0,2)->4, (0,1)->5
VoigtOf(i, j) == IF i = j THEN i ELSE 6 - i - j

\* C8: C66toC3333(M)[i,j,k,l] = M[v(i,j), v(k,l)] for every i,j,k,l, whether M
\* is symmetric or not: all 81 entries are assigned and the four minor
\* permutations of an entry agree.
C8_ExpansionFollowsVoigtMap ==
  pc = "expanded" =>
    /\ DOMAIN S3333.num = Idx3 \X Idx3 \X Idx3 \X Idx3
    /\ \A q \in Idx3 \X Idx3 \X Idx3 \X Idx3 :
         /\ S3333.num[q] = S66.num[<<VoigtOf(q[1], q[2]), VoigtOf(q[3], q[4])>>]
         /\ S3333.num[q] = S3333.num[<<q[1], q[2], q[4], q[3]>>]
         /\ S3333.num[q] = S3333.num[<<q[2], q[1], q[3], q[4]>>]
         /\ S3333.num[q] = S3333.num[<<q[2], q[1], q[4], q[3]>>]

\* C8 witness: the matrix with 36 different entries M[a,b] = 6a + b + 1 has
\* been expanded, and T[1,0,2,1] = M[5,3] differs from T[2,1,1,0] = M[3,5]
C8_Witness ==
  /\ pc = "expanded"
  /\ S66.num = TestMatrix(6, 1, 1)
  /\ S3333.num[<<1, 0, 2, 1>>] = 34
  /\ S3333.num[<<2, 1, 1, 0>>] = 24

\* C9: a singular stiffness matrix makes inverse66 fail and ends the run
\* before the sphere is assembled and before an exporter is called; an
\* exporter is called only after construction, inversion and expansion have
\* all succeeded, so a failed run writes nothing.  The first conjunct does
\* not hold: np.linalg.inv fails on a pivot that is 0.0, and the elimination
\* of a singular matrix in doubles can leave a rounding residue instead, as
\* for hexagonal c11 = -1, c12 = 3, c13 = c33 = c44 = 1.
C9_SingularAbortsBeforeExport ==
  /\ pc \in {"inverted", "expanded", "triangulated", "connected", "placed",
             "scaled", "done"} => Det66(C) # 0
  /\ err = "LinAlgError" => Det66(C) = 0
  /\ (args.symmetry = "isotropic" /\ args["c11"] = args["c12"]
        /\ pc \notin {"start", "built"}) => err = "LinAlgError"
  /\ err # "none" =>
       /\ pc = "aborted"
       /\ S3333 = Unset /\ weights = Unset /\ c = Unset
       /\ connectivity = Unset /\ nodes = Unset /\ out = Unset
  /\ out # Unset =>
       /\ pc = "done" /\ err = "none"
       /\ C # Unset /\ S66 # Unset /\ S3333 # Unset
       /\ out.coords = nodes /\ out.connectivity = connectivity

\* 1/S[a,a,a,a], and its absolute value, as fractions
AxisModulus(a) == Frac(S3333.den, S3333.num[<<a, a, a, a>>])
AbsAxisModulus(a) == Frac(S3333.den, Abs(S3333.num[<<a, a, a, a>>]))
\* two floats are equal: finite and the same number, or the same infinity
\* (nan equals nothing)
NormEq(x, y) ==
  \/ x.kind = "finite" /\ y.kind = "finite" /\ FracEq(x, y)
  \/ x.kind = "inf" /\ y.kind = "inf"
ModulusEq(x, y) ==
  /\ ~IsRounded(x) /\ ~IsRounded(y)
  /\ \/ FracEq(x, y)
     \/ x.den = 0 /\ y.den = 0 /\ x.num # 0 /\ x.num = y.num
AsNorm(x) == [kind |-> "finite", num |-> x.num, den |-> x.den]

\* C10 as stated: for isotropic symmetry and an invertible matrix the modulus
\* is the same for every direction and all output points have equal norm; for
\* N = 0 every point has norm 1/S[a,a,a,a], for each axis a.
C10_IsotropicEqualNorms ==
  pc = "scaled" /\ args.symmetry = "isotropic" /\ Det66(C) # 0 =>
    /\ \A x \in DOMAIN nodes :
         /\ ModulusEq(nodes[x].r, nodes[1].r)
         /\ NormEq(NodeNorm(nodes[x]), NodeNorm(nodes[1]))
    /\ args.recursion = 0 =>
         \A x \in DOMAIN nodes : \A a \in Idx3 :
           AxisModulus(a).den # 0
             /\ NormEq(NodeNorm(nodes[x]), AsNorm(AxisModulus(a)))

\* C10 amended: for isotropic symmetry, an invertible matrix and c11 + c12 # 0
\* (so that S[a,a,a,a] # 0) the modulus is the same finite number for every
\* direction and every output point has norm |1/S[a,a,a,a]|, for each axis a
\* and every N.
C10_IsotropicEqualFiniteNorms ==
  (pc = "scaled" /\ args.symmetry = "isotropic" /\ Det66(C) # 0
      /\ Val(args["c11"]) + Val(args["c12"]) # 0) =>
    /\ \A a \in Idx3 : S3333.num[<<a, a, a, a>>] # 0
    /\ \A x \in DOMAIN nodes :
         /\ nodes[x].r.den # 0
         /\ FracEq(nodes[x].r, nodes[1].r)
         /\ \A a \in Idx3 :
              NormEq(NodeNorm(nodes[x]), AsNorm(AbsAxisModulus(a)))

\* C10 witness: isotropic, c11 = 1, c12 = 0, N = 2: a point inside a face and
\* an axis point have both been scaled by the modulus E = 1
C10_Witness ==
  /\ pc = "scaled"
  /\ args.symmetry = "isotropic"
  /\ args["c11"] = Some(1) /\ args["c12"] = Some(0)
  /\ args.recursion = 2
  /\ \E x \in DOMAIN nodes :
       nodes[x].p = <<1, 1, 2>> /\ FracEq(nodes[x].r, Frac(1, 1))
  /\ \E x \in DOMAIN nodes :
       nodes[x].p = <<0, 0, -1>> /\ FracEq(nodes[x].r, Frac(1, 1))

====
